---- MODULE Spec2Model ----
(***************************************************************************)
(* The entity management layer of the Person / Address / FeeDetails /      *)
(* VisaStatus service (src/main.py and src/models/*.py).                    *)
(*                                                                         *)
(* State: the four module-level dictionaries of main.py and the wall clock *)
(* read by datetime.utcnow.  A request handler is an operator that gives,  *)
(* for its arguments and the current state, the set of its possible        *)
(* outcomes: the response (status and body) together with the state it     *)
(* leaves behind.  One action per handler applies one of its outcomes; a   *)
(* handler runs from its first line to its return (or raise) in one step.  *)
(*                                                                         *)
(* Python values that may be None are modelled as sets of at most one      *)
(* element: None is {}, a value v is {v}.  A Python dict of field values   *)
(* (the result of model_dump) is a function from field names to such       *)
(* sets.  A Dict[UUID, Read] is a sequence of entries in insertion order.  *)
(*                                                                         *)
(* models/address.py is not among the sources: the Address shapes are      *)
(* taken from the data model of the specification (five required text      *)
(* fields, an identifier the client may choose, the two timestamps).       *)
(***************************************************************************)
EXTENDS Integers, Sequences, FiniteSets, TLC

\* ---------------------------------------------------------------- bounds
MaxId == 2
MaxTime == 1
MaxRecords == 2
MaxPatch == 1
MaxFilters == 2

Ids == 1..MaxId
Times == 0..MaxTime

VARIABLES persons, addresses, fee_details, visa_statuses, now

\* The requests in progress on the worker threads that run the handlers
\* side by side (each thread: where it is in its handler, its request, its
\* local stored, its response), and the addresses they started from.
VARIABLES threads, addresses0

vars == <<persons, addresses, fee_details, visa_statuses, now, threads, addresses0>>

\* ------------------------------------------------------- Python values
None == {}
Some(v) == {v}
Val(o) == CHOOSE v \in o : TRUE
Opt(S) == {None} \cup {Some(v) : v \in S}

EmptyDict == [f \in {} |-> None]
Single(f, D) == {[g \in {f} |-> o] : o \in D}
Join(p, q) == [f \in DOMAIN p \cup DOMAIN q |-> IF f \in DOMAIN p THEN p[f] ELSE q[f]]
Pairs(P, Q) == {Join(p, q) : p \in P, q \in Q}

\* A faulty merge: the stored value wins over the value of the patch.
dict_setdefault(stored, upd) ==
  [f \in DOMAIN stored \cup DOMAIN upd |-> IF f \in DOMAIN stored THEN stored[f] ELSE upd[f]]

\* dict.update: every key of upd overwrites, every other key is kept.
dict_update(stored, upd) ==
  [f \in DOMAIN stored \cup DOMAIN upd |-> IF f \in DOMAIN upd THEN upd[f] ELSE stored[f]]

\* ---------------------------------------------- Dict[UUID, Read] (ordered)
DictKeys(d) == {d[i].key : i \in DOMAIN d}
DictGet(d, k) == d[CHOOSE i \in DOMAIN d : d[i].key = k].value
\* A faulty assignment: the key is removed and inserted again, at the end.
DictSet_reinsert(d, k, v) ==
  LET Other_key(e) == e.key # k
  IN  Append(SelectSeq(d, Other_key), [key |-> k, value |-> v])

DictSet(d, k, v) ==
  IF k \in DictKeys(d)
  THEN [i \in DOMAIN d |-> IF d[i].key = k THEN [key |-> k, value |-> v] ELSE d[i]]
  ELSE Append(d, [key |-> k, value |-> v])
DictValues(d) == [i \in DOMAIN d |-> d[i].value]

\* [x for x in results if Keep(x)]
Filter(results, Keep(_)) == SelectSeq(results, Keep)

\* A faulty quantifier: all() where the handler calls any().
all(bools) == \A i \in DOMAIN bools : bools[i]

\* any(b for ...): bools holds the values of the generator expression.
any(bools) == \E i \in DOMAIN bools : bools[i]

\* ------------------------------------------------------ field value domains
VisaValues == {"F1", "OPT"}
UniversityNames == {"Columbia University", "New York University"}
Credits == {30, 36}
Streets == {"736 Riverside Dr"}
Cities == {"New York", "Brooklyn"}
States == {"NY"}
PostalCodes == {"10031"}
Countries == {"USA", "India"}
Unis == {"dy2530"}
FirstNames == {"Dhanvanth Reddy"}
LastNames == {"Yerramreddy"}
Emails == {"dy2530@columbia.edu"}
Phones == {"+1-646-408-9482"}
BirthDates == {<<2002, 5, 9>>}

\* A value no stored record carries, for the filters.
Other == "other"

\* The values a filter is asked with: the field's values, and a value that
\* matches nothing where the field has a single value.
FilterValues(S) == Opt(IF Cardinality(S) = 1 THEN S \cup {Other} ELSE S)

\* Embedded addresses (AddressBase): the identifier and the five text fields.
AddressBase(id, city, country) ==
  [id |-> id, street |-> "736 Riverside Dr", city |-> city, state |-> "NY",
   postal_code |-> "10031", country |-> country]
AddressLists ==
  {<<>>,
   <<AddressBase(1, "New York", "India")>>,
   <<AddressBase(1, "New York", "India"), AddressBase(2, "Brooklyn", "USA")>>}

VisaStatusFields == {"visa_status"}
FeeDetailsFields == {"university_name", "number_of_credits", "fee_paid"}
AddressFields == {"street", "city", "state", "postal_code", "country"}
PersonRequired == {"uni", "first_name", "last_name", "email", "addresses"}
PersonOptional == {"phone", "birth_date"}
PersonFields == PersonRequired \cup PersonOptional

FieldValues(f) ==
  CASE f = "visa_status" -> VisaValues
    [] f = "university_name" -> UniversityNames
    [] f = "number_of_credits" -> Credits
    [] f = "fee_paid" -> BOOLEAN
    [] f = "street" -> Streets
    [] f = "city" -> Cities
    [] f = "state" -> States
    [] f = "postal_code" -> PostalCodes
    [] f = "country" -> Countries
    [] f = "uni" -> Unis
    [] f = "first_name" -> FirstNames
    [] f = "last_name" -> LastNames
    [] f = "email" -> Emails
    [] f = "phone" -> Phones
    [] f = "birth_date" -> BirthDates
    [] f = "addresses" -> AddressLists

\* An Update model dumped with exclude_unset=True: the fields S the request
\* carried, each with the value it carried or None.
RECURSIVE UpdateDump(_)
UpdateDump(S) ==
  IF S = {} THEN {EmptyDict}
  ELSE LET f == CHOOSE g \in S : TRUE
       IN  Pairs(Single(f, Opt(FieldValues(f))), UpdateDump(S \ {f}))

Updates(fields) ==
  UNION {UpdateDump(S) : S \in {T \in SUBSET fields : Cardinality(T) <= MaxPatch}}

\* ------------------------------------------------- identity and timestamps
StoredIds == DictKeys(persons) \cup DictKeys(addresses)
             \cup DictKeys(fee_details) \cup DictKeys(visa_statuses)

\* A faulty generator: it returns the same identifier at every call.
uuid4_fixed == {1}

\* uuid4(): a random 128-bit identifier; it never repeats an identifier that
\* is already a key of a collection.
uuid4 == Ids \ StoredIds

\* A second reading of datetime.utcnow within one handler: the clock has
\* stood still or has moved on since the first reading (which returned now).
utcnow_again == {t \in Times : now <= t /\ t <= now + 1}

\* A faulty construction: the factory runs although the keyword is given.
Factory_always(d, f, made) == made

\* Field(default_factory=made): the keyword argument when it is given,
\* else what the factory returns.
Factory(d, f, made) == IF f \in DOMAIN d THEN {Val(d[f])} ELSE made

\* The three server-assigned fields of a Read model built from the keyword
\* arguments d: <<id, created_at, updated_at>>.
ServerFields(d) ==
  Factory(d, "id", uuid4) \X Factory(d, "created_at", {now}) \X Factory(d, "updated_at", utcnow_again)

\* BaseModel.model_dump(): every field, by name; optional holds the fields
\* whose value may be None.
model_dump(m, optional) == [f \in DOMAIN m |-> IF f \in optional THEN m[f] ELSE Some(m[f])]

\* Pydantic validation of keyword arguments d: every required field is given
\* and is not None.
validates(d, required) == \A f \in required : f \in DOMAIN d /\ d[f] # None

\* ------------------------------------------------------ state and outcomes
db == [persons |-> persons, addresses |-> addresses, fee_details |-> fee_details,
       visa_statuses |-> visa_statuses, now |-> now]

Outcome(status, body, s) == [status |-> status, body |-> body, db |-> s]

Apply(out) ==
  /\ persons' = out.db.persons
  /\ addresses' = out.db.addresses
  /\ fee_details' = out.db.fee_details
  /\ visa_statuses' = out.db.visa_statuses
  /\ now' = out.db.now
  /\ UNCHANGED <<threads, addresses0>>

TotalRecords == Len(persons) + Len(addresses) + Len(fee_details) + Len(visa_statuses)

\* ------------------------------------------------------------- VisaStatus
\* Records are created with the first value and changed to the others by updates.
VisaStatusCreate == [visa_status : {"F1"}]

VisaStatusUpdate == Updates(VisaStatusFields)

VisaStatusRead(d, sf) ==
  [visa_status |-> Val(d["visa_status"]),
   id          |-> sf[1],
   created_at  |-> sf[2],
   updated_at  |-> sf[3]]

create_visa_status(visa) ==
  LET d == model_dump(visa, {}) IN
    {LET visa_read == VisaStatusRead(d, sf) IN
       Outcome("201", visa_read,
               [db EXCEPT !.visa_statuses = DictSet(visa_statuses, visa_read.id, visa_read),
                          !.now = visa_read.updated_at])
     : sf \in ServerFields(d)}

list_visa_statuses(visa_status) ==
  LET results0 == DictValues(visa_statuses)
      Keep1(v) == v.visa_status = Val(visa_status)
      results1 == IF visa_status # None THEN Filter(results0, Keep1) ELSE results0
  IN  {Outcome("200", results1, db)}

\* A faulty lookup: dict.get, which answers an absent key with None.
get_visa_status_or_none(visa_id) ==
  IF visa_id \notin DictKeys(visa_statuses)
  THEN {Outcome("200", None, db)}
  ELSE {Outcome("200", DictGet(visa_statuses, visa_id), db)}

get_visa_status(visa_id) ==
  IF visa_id \notin DictKeys(visa_statuses)
  THEN {Outcome("404", None, db)}
  ELSE {Outcome("200", DictGet(visa_statuses, visa_id), db)}

\* A faulty update: a merged record that does not validate is answered with
\* the stored record instead of an error.
update_visa_status_lenient(visa_id, update) ==
  IF visa_id \notin DictKeys(visa_statuses)
  THEN {Outcome("404", None, db)}
  ELSE LET stored == dict_update(model_dump(DictGet(visa_statuses, visa_id), {}), update) IN
         IF ~validates(stored, VisaStatusFields)
         THEN {Outcome("200", DictGet(visa_statuses, visa_id), db)}
         ELSE {LET visa_read == VisaStatusRead(stored, sf) IN
                 Outcome("200", visa_read,
                         [db EXCEPT !.visa_statuses = DictSet(visa_statuses, visa_id, visa_read),
                                    !.now = IF "updated_at" \in DOMAIN stored THEN now
                                            ELSE visa_read.updated_at])
               : sf \in ServerFields(stored)}

update_visa_status(visa_id, update) ==
  IF visa_id \notin DictKeys(visa_statuses)
  THEN {Outcome("404", None, db)}
  ELSE LET stored == dict_update(model_dump(DictGet(visa_statuses, visa_id), {}), update) IN
         IF ~validates(stored, VisaStatusFields)
         THEN {Outcome("ValidationError", None, db)}
         ELSE {LET visa_read == VisaStatusRead(stored, sf) IN
                 Outcome("200", visa_read,
                         [db EXCEPT !.visa_statuses = DictSet(visa_statuses, visa_id, visa_read),
                                    !.now = IF "updated_at" \in DOMAIN stored THEN now
                                            ELSE visa_read.updated_at])
               : sf \in ServerFields(stored)}

VisaFilters == [visa_status : FilterValues(VisaValues)]

CreateVisaStatus ==
  /\ TotalRecords < MaxRecords
  /\ \E visa \in VisaStatusCreate : \E out \in create_visa_status(visa) : Apply(out)
ListVisaStatuses ==
  \E F \in VisaFilters : \E out \in list_visa_statuses(F.visa_status) : Apply(out)
GetVisaStatus == \E visa_id \in Ids : \E out \in get_visa_status(visa_id) : Apply(out)
UpdateVisaStatus ==
  \E visa_id \in Ids, update \in VisaStatusUpdate :
    \E out \in update_visa_status(visa_id, update) : Apply(out)

\* ------------------------------------------------------------- FeeDetails
FeeDetailsCreate ==
  [university_name : {"Columbia University"}, number_of_credits : {30}, fee_paid : BOOLEAN]

FeeDetailsUpdate == Updates(FeeDetailsFields)

FeeDetailsRead(d, sf) ==
  [university_name   |-> Val(d["university_name"]),
   number_of_credits |-> Val(d["number_of_credits"]),
   fee_paid          |-> Val(d["fee_paid"]),
   id                |-> sf[1],
   created_at        |-> sf[2],
   updated_at        |-> sf[3]]

create_fee_details(fee) ==
  LET d == model_dump(fee, {}) IN
    {LET fee_read == FeeDetailsRead(d, sf) IN
       Outcome("201", fee_read,
               [db EXCEPT !.fee_details = DictSet(fee_details, fee_read.id, fee_read),
                          !.now = fee_read.updated_at])
     : sf \in ServerFields(d)}

list_fee_details(university_name, fee_paid) ==
  LET results0 == DictValues(fee_details)
      Keep1(f) == f.university_name = Val(university_name)
      results1 == IF university_name # None THEN Filter(results0, Keep1) ELSE results0
      Keep2(f) == f.fee_paid = Val(fee_paid)
      results2 == IF fee_paid # None THEN Filter(results1, Keep2) ELSE results1
  IN  {Outcome("200", results2, db)}

get_fee_details(fee_id) ==
  IF fee_id \notin DictKeys(fee_details)
  THEN {Outcome("404", None, db)}
  ELSE {Outcome("200", DictGet(fee_details, fee_id), db)}

update_fee_details(fee_id, update) ==
  IF fee_id \notin DictKeys(fee_details)
  THEN {Outcome("404", None, db)}
  ELSE LET stored == dict_update(model_dump(DictGet(fee_details, fee_id), {}), update) IN
         IF ~validates(stored, FeeDetailsFields)
         THEN {Outcome("ValidationError", None, db)}
         ELSE {LET fee_read == FeeDetailsRead(stored, sf) IN
                 Outcome("200", fee_read,
                         [db EXCEPT !.fee_details = DictSet(fee_details, fee_id, fee_read),
                                    !.now = IF "updated_at" \in DOMAIN stored THEN now
                                            ELSE fee_read.updated_at])
               : sf \in ServerFields(stored)}

FeeFilters == [university_name : FilterValues(UniversityNames), fee_paid : FilterValues(BOOLEAN)]

CreateFeeDetails ==
  /\ TotalRecords < MaxRecords
  /\ \E fee \in FeeDetailsCreate : \E out \in create_fee_details(fee) : Apply(out)
ListFeeDetails ==
  \E F \in FeeFilters : \E out \in list_fee_details(F.university_name, F.fee_paid) : Apply(out)
GetFeeDetails == \E fee_id \in Ids : \E out \in get_fee_details(fee_id) : Apply(out)
UpdateFeeDetails ==
  \E fee_id \in Ids, update \in FeeDetailsUpdate :
    \E out \in update_fee_details(fee_id, update) : Apply(out)

\* ---------------------------------------------------------------- Address
AddressCreate ==
  [id : Ids, street : Streets, city : {"New York"}, state : States,
   postal_code : PostalCodes, country : Countries]

AddressUpdate == Updates(AddressFields)

AddressRead(d, sf) ==
  [street      |-> Val(d["street"]),
   city        |-> Val(d["city"]),
   state       |-> Val(d["state"]),
   postal_code |-> Val(d["postal_code"]),
   country     |-> Val(d["country"]),
   id          |-> sf[1],
   created_at  |-> sf[2],
   updated_at  |-> sf[3]]

\* A faulty create: no test for the identifier, the new record replaces the
\* one stored under it.
create_address_overwrite(address) ==
  LET d == model_dump(address, {}) IN
    {LET address_read == AddressRead(d, sf) IN
       Outcome("201", address_read,
               [db EXCEPT !.addresses = DictSet(addresses, address.id, address_read),
                          !.now = address_read.updated_at])
     : sf \in ServerFields(d)}

create_address(address) ==
  IF address.id \in DictKeys(addresses)
  THEN {Outcome("400", None, db)}
  ELSE LET d == model_dump(address, {}) IN
         {LET address_read == AddressRead(d, sf) IN
            Outcome("201", address_read,
                    [db EXCEPT !.addresses = DictSet(addresses, address.id, address_read),
                               !.now = address_read.updated_at])
          : sf \in ServerFields(d)}

list_addresses(street, city, state, postal_code, country) ==
  LET results0 == DictValues(addresses)
      Keep1(a) == a.street = Val(street)
      results1 == IF street # None THEN Filter(results0, Keep1) ELSE results0
      Keep2(a) == a.city = Val(city)
      results2 == IF city # None THEN Filter(results1, Keep2) ELSE results1
      Keep3(a) == a.state = Val(state)
      results3 == IF state # None THEN Filter(results2, Keep3) ELSE results2
      Keep4(a) == a.postal_code = Val(postal_code)
      results4 == IF postal_code # None THEN Filter(results3, Keep4) ELSE results3
      Keep5(a) == a.country = Val(country)
      results5 == IF country # None THEN Filter(results4, Keep5) ELSE results4
  IN  {Outcome("200", results5, db)}

get_address(address_id) ==
  IF address_id \notin DictKeys(addresses)
  THEN {Outcome("404", None, db)}
  ELSE {Outcome("200", DictGet(addresses, address_id), db)}

update_address(address_id, update) ==
  IF address_id \notin DictKeys(addresses)
  THEN {Outcome("404", None, db)}
  ELSE LET stored == dict_update(model_dump(DictGet(addresses, address_id), {}), update) IN
         IF ~validates(stored, AddressFields)
         THEN {Outcome("ValidationError", None, db)}
         ELSE {LET address_read == AddressRead(stored, sf) IN
                 Outcome("200", address_read,
                         [db EXCEPT !.addresses = DictSet(addresses, address_id, address_read),
                                    !.now = IF "updated_at" \in DOMAIN stored THEN now
                                            ELSE address_read.updated_at])
               : sf \in ServerFields(stored)}

Supplied(F) == {f \in DOMAIN F : F[f] # None}

AddressFilters ==
  {F \in [street : FilterValues(Streets), city : FilterValues(Cities),
          state : FilterValues(States), postal_code : FilterValues(PostalCodes),
          country : FilterValues(Countries)] :
     Cardinality(Supplied(F)) <= MaxFilters}

CreateAddress ==
  /\ TotalRecords < MaxRecords
  /\ \E address \in AddressCreate : \E out \in create_address(address) : Apply(out)
ListAddresses ==
  \E F \in AddressFilters :
    \E out \in list_addresses(F.street, F.city, F.state, F.postal_code, F.country) : Apply(out)
GetAddress == \E address_id \in Ids : \E out \in get_address(address_id) : Apply(out)
UpdateAddress ==
  \E address_id \in Ids, update \in AddressUpdate :
    \E out \in update_address(address_id, update) : Apply(out)

\* ----------------------------------------------------------------- Person
PersonCreate ==
  [uni : Unis, first_name : FirstNames, last_name : LastNames, email : Emails,
   phone : Opt(Phones), birth_date : Opt(BirthDates), addresses : AddressLists]

PersonUpdate == Updates(PersonFields)

PersonRead(d, sf) ==
  [uni        |-> Val(d["uni"]),
   first_name |-> Val(d["first_name"]),
   last_name  |-> Val(d["last_name"]),
   email      |-> Val(d["email"]),
   phone      |-> IF "phone" \in DOMAIN d THEN d["phone"] ELSE None,
   birth_date |-> IF "birth_date" \in DOMAIN d THEN d["birth_date"] ELSE None,
   addresses  |-> IF "addresses" \in DOMAIN d THEN Val(d["addresses"]) ELSE <<>>,
   id         |-> sf[1],
   created_at |-> sf[2],
   updated_at |-> sf[3]]

PersonRead_validates(d) ==
  /\ validates(d, {"uni", "first_name", "last_name", "email"})
  /\ "addresses" \in DOMAIN d => d["addresses"] # None

\* str(date): the ISO form YYYY-MM-DD; str(None) is "None".
Pad2(n) == IF n < 10 THEN "0" \o ToString(n) ELSE ToString(n)
str(birth_date) ==
  IF birth_date = None THEN "None"
  ELSE LET dt == Val(birth_date) IN ToString(dt[1]) \o "-" \o Pad2(dt[2]) \o "-" \o Pad2(dt[3])

\* A faulty create: the first embedded address is also stored in the address
\* collection, under its id.
create_person_and_address(person) ==
  LET d == model_dump(person, PersonOptional) IN
    {LET person_read == PersonRead(d, sf)
         a == person.addresses[1]
         address_read == [street |-> a.street, city |-> a.city, state |-> a.state,
                          postal_code |-> a.postal_code, country |-> a.country,
                          id |-> a.id, created_at |-> sf[2], updated_at |-> sf[3]]
     IN
       Outcome("201", person_read,
               [db EXCEPT !.persons = DictSet(persons, person_read.id, person_read),
                          !.addresses = IF person.addresses = <<>> THEN addresses
                                        ELSE DictSet(addresses, a.id, address_read),
                          !.now = person_read.updated_at])
     : sf \in ServerFields(d)}

create_person(person) ==
  LET d == model_dump(person, PersonOptional) IN
    {LET person_read == PersonRead(d, sf) IN
       Outcome("201", person_read,
               [db EXCEPT !.persons = DictSet(persons, person_read.id, person_read),
                          !.now = person_read.updated_at])
     : sf \in ServerFields(d)}

list_persons(uni, first_name, last_name, email, phone, birth_date, city, country) ==
  LET results0 == DictValues(persons)
      Keep1(p) == p.uni = Val(uni)
      results1 == IF uni # None THEN Filter(results0, Keep1) ELSE results0
      Keep2(p) == p.first_name = Val(first_name)
      results2 == IF first_name # None THEN Filter(results1, Keep2) ELSE results1
      Keep3(p) == p.last_name = Val(last_name)
      results3 == IF last_name # None THEN Filter(results2, Keep3) ELSE results2
      Keep4(p) == p.email = Val(email)
      results4 == IF email # None THEN Filter(results3, Keep4) ELSE results3
      Keep5(p) == p.phone = phone
      results5 == IF phone # None THEN Filter(results4, Keep5) ELSE results4
      Keep6(p) == str(p.birth_date) = Val(birth_date)
      results6 == IF birth_date # None THEN Filter(results5, Keep6) ELSE results5
      Keep7(p) == any([i \in DOMAIN p.addresses |-> p.addresses[i].city = Val(city)])
      results7 == IF city # None THEN Filter(results6, Keep7) ELSE results6
      Keep8(p) == any([i \in DOMAIN p.addresses |-> p.addresses[i].country = Val(country)])
      results8 == IF country # None THEN Filter(results7, Keep8) ELSE results7
  IN  {Outcome("200", results8, db)}

get_person(person_id) ==
  IF person_id \notin DictKeys(persons)
  THEN {Outcome("404", None, db)}
  ELSE {Outcome("200", DictGet(persons, person_id), db)}

update_person(person_id, update) ==
  IF person_id \notin DictKeys(persons)
  THEN {Outcome("404", None, db)}
  ELSE LET stored == dict_update(model_dump(DictGet(persons, person_id), PersonOptional), update) IN
         IF ~PersonRead_validates(stored)
         THEN {Outcome("ValidationError", None, db)}
         ELSE {LET person_read == PersonRead(stored, sf) IN
                 Outcome("200", person_read,
                         [db EXCEPT !.persons = DictSet(persons, person_id, person_read),
                                    !.now = IF "updated_at" \in DOMAIN stored THEN now
                                            ELSE person_read.updated_at])
               : sf \in ServerFields(stored)}

PersonFilters ==
  {F \in [uni : FilterValues(Unis), first_name : FilterValues(FirstNames),
          last_name : FilterValues(LastNames), email : FilterValues(Emails),
          phone : FilterValues(Phones), birth_date : FilterValues({"2002-05-09", "None"}),
          city : FilterValues(Cities), country : FilterValues(Countries)] :
     Cardinality(Supplied(F)) <= MaxFilters}

CreatePerson ==
  /\ TotalRecords < MaxRecords
  /\ \E person \in PersonCreate : \E out \in create_person(person) : Apply(out)
ListPersons ==
  \E F \in PersonFilters :
    \E out \in list_persons(F.uni, F.first_name, F.last_name, F.email, F.phone,
                            F.birth_date, F.city, F.country) : Apply(out)
GetPerson == \E person_id \in Ids : \E out \in get_person(person_id) : Apply(out)
UpdatePerson ==
  \E person_id \in Ids, update \in PersonUpdate :
    \E out \in update_person(person_id, update) : Apply(out)

\* ------------------------------------------------------------------ routes
\* The operation set of each entity type, by the name of its collection.
Collections == {"persons", "addresses", "fee_details", "visa_statuses"}

CreatePayloads(c) ==
  CASE c = "persons" -> PersonCreate
    [] c = "addresses" -> AddressCreate
    [] c = "fee_details" -> FeeDetailsCreate
    [] c = "visa_statuses" -> VisaStatusCreate

UpdatePayloads(c) ==
  CASE c = "persons" -> PersonUpdate
    [] c = "addresses" -> AddressUpdate
    [] c = "fee_details" -> FeeDetailsUpdate
    [] c = "visa_statuses" -> VisaStatusUpdate

DomainFields(c) ==
  CASE c = "persons" -> PersonFields
    [] c = "addresses" -> AddressFields
    [] c = "fee_details" -> FeeDetailsFields
    [] c = "visa_statuses" -> VisaStatusFields

OptionalFields(c) == IF c = "persons" THEN PersonOptional ELSE {}

Filters(c) ==
  CASE c = "persons" -> PersonFilters
    [] c = "addresses" -> AddressFilters
    [] c = "fee_details" -> FeeFilters
    [] c = "visa_statuses" -> VisaFilters

list(c, F) ==
  CASE c = "persons" -> list_persons(F.uni, F.first_name, F.last_name, F.email, F.phone,
                                     F.birth_date, F.city, F.country)
    [] c = "addresses" -> list_addresses(F.street, F.city, F.state, F.postal_code, F.country)
    [] c = "fee_details" -> list_fee_details(F.university_name, F.fee_paid)
    [] c = "visa_statuses" -> list_visa_statuses(F.visa_status)

create(c, payload) ==
  CASE c = "persons" -> create_person(payload)
    [] c = "addresses" -> create_address(payload)
    [] c = "fee_details" -> create_fee_details(payload)
    [] c = "visa_statuses" -> create_visa_status(payload)

get(c, id) ==
  CASE c = "persons" -> get_person(id)
    [] c = "addresses" -> get_address(id)
    [] c = "fee_details" -> get_fee_details(id)
    [] c = "visa_statuses" -> get_visa_status(id)

update(c, id, patch) ==
  CASE c = "persons" -> update_person(id, patch)
    [] c = "addresses" -> update_address(id, patch)
    [] c = "fee_details" -> update_fee_details(id, patch)
    [] c = "visa_statuses" -> update_visa_status(id, patch)

\* ------------------------------------------------------------------ clock
Tick ==
  /\ now < MaxTime
  /\ now' = now + 1
  /\ UNCHANGED <<persons, addresses, fee_details, visa_statuses, threads, addresses0>>

\* ---------------------------------------------------------- specification
\* The worker threads of the server.
Threads == {"t1", "t2"}

Idle == [pc |-> "idle", request |-> [kind |-> "none"], stored |-> EmptyDict, status |-> "none"]

Init ==
  /\ persons = <<>>
  /\ addresses = <<>>
  /\ fee_details = <<>>
  /\ visa_statuses = <<>>
  /\ now = 0
  /\ threads = [t \in Threads |-> Idle]
  /\ addresses0 = <<>>

Next ==
  \/ CreateAddress
  \/ ListAddresses
  \/ GetAddress
  \/ UpdateAddress
  \/ CreatePerson
  \/ ListPersons
  \/ GetPerson
  \/ UpdatePerson
  \/ CreateFeeDetails
  \/ ListFeeDetails
  \/ GetFeeDetails
  \/ UpdateFeeDetails
  \/ CreateVisaStatus
  \/ ListVisaStatuses
  \/ GetVisaStatus
  \/ UpdateVisaStatus
  \/ Tick

Spec == Init /\ [][Next]_vars

\* ------------------------------------------------- handlers side by side
\* The handlers are plain functions without a lock; the server runs them on
\* worker threads, and a thread can be suspended between two statements.
\* Each action below is one statement group of create_address or
\* update_address run by thread t.
AddressRequests ==
  {[kind |-> "create_address", id |-> a.id, body |-> a] : a \in AddressCreate}
  \cup {[kind |-> "update_address", id |-> id, body |-> u] : id \in Ids, u \in AddressUpdate}

Goto(t, pc, stored, status) ==
  threads' = [threads EXCEPT ![t] = [pc |-> pc, request |-> threads[t].request,
                                     stored |-> stored, status |-> status]]

\* A request arrives and is given to an idle thread.
Receive(t) ==
  /\ threads[t].pc = "idle"
  /\ \E r \in AddressRequests :
       threads' = [threads EXCEPT ![t] = [pc |-> r.kind, request |-> r,
                                          stored |-> EmptyDict, status |-> "none"]]
  /\ UNCHANGED <<persons, addresses, fee_details, visa_statuses, now, addresses0>>

\* if address.id in addresses: raise HTTPException(400)
CreateAddressCheck(t) ==
  /\ threads[t].pc = "create_address"
  /\ IF threads[t].request.id \in DictKeys(addresses)
     THEN Goto(t, "done", EmptyDict, "400")
     ELSE Goto(t, "create_address_store", EmptyDict, "none")
  /\ UNCHANGED <<persons, addresses, fee_details, visa_statuses, now, addresses0>>

\* addresses[address.id] = AddressRead(**address.model_dump()); return
CreateAddressStore(t) ==
  /\ threads[t].pc = "create_address_store"
  /\ LET address == threads[t].request.body
         d == model_dump(address, {})
     IN  \E sf \in ServerFields(d) :
           LET address_read == AddressRead(d, sf) IN
             /\ addresses' = DictSet(addresses, address.id, address_read)
             /\ now' = address_read.updated_at
  /\ Goto(t, "done", EmptyDict, "201")
  /\ UNCHANGED <<persons, fee_details, visa_statuses, addresses0>>

\* if address_id not in addresses: raise HTTPException(404)
UpdateAddressCheck(t) ==
  /\ threads[t].pc = "update_address"
  /\ IF threads[t].request.id \notin DictKeys(addresses)
     THEN Goto(t, "done", EmptyDict, "404")
     ELSE Goto(t, "update_address_read", EmptyDict, "none")
  /\ UNCHANGED <<persons, addresses, fee_details, visa_statuses, now, addresses0>>

\* stored = addresses[address_id].model_dump(); stored.update(...)
UpdateAddressRead(t) ==
  /\ threads[t].pc = "update_address_read"
  /\ Goto(t, "update_address_store",
          dict_update(model_dump(DictGet(addresses, threads[t].request.id), {}),
                      threads[t].request.body),
          "none")
  /\ UNCHANGED <<persons, addresses, fee_details, visa_statuses, now, addresses0>>

\* addresses[address_id] = AddressRead(**stored); return
UpdateAddressStore(t) ==
  /\ threads[t].pc = "update_address_store"
  /\ LET stored == threads[t].stored IN
       IF ~validates(stored, AddressFields)
       THEN /\ Goto(t, "done", EmptyDict, "ValidationError")
            /\ UNCHANGED <<addresses, now>>
       ELSE /\ \E sf \in ServerFields(stored) :
                 addresses' = DictSet(addresses, threads[t].request.id, AddressRead(stored, sf))
            /\ Goto(t, "done", EmptyDict, "200")
            /\ UNCHANGED now
  /\ UNCHANGED <<persons, fee_details, visa_statuses, addresses0>>

\* The server starts the two requests with no address or one address stored.
InitThreads ==
  /\ persons = <<>>
  /\ fee_details = <<>>
  /\ visa_statuses = <<>>
  /\ now = 0
  /\ addresses \in
       {<<>>} \cup {<<[key |-> a.id, value |-> AddressRead(model_dump(a, {}), <<a.id, 0, 0>>)]>>
                    : a \in AddressCreate}
  /\ addresses0 = addresses
  /\ threads = [t \in Threads |-> Idle]

NextThreads ==
  \E t \in Threads :
    \/ Receive(t)
    \/ CreateAddressCheck(t)
    \/ CreateAddressStore(t)
    \/ UpdateAddressCheck(t)
    \/ UpdateAddressRead(t)
    \/ UpdateAddressStore(t)

SpecThreads == InitThreads /\ [][NextThreads]_vars

\* ------------------------------------------------------------------ claims
\* The stored records of collection c, by key, in state s.
Keys(s, c) == DictKeys(s[c])
Rec(s, c, k) == DictGet(s[c], k)

\* Field f of record r as the value a payload would carry for it.
Carried(c, r, f) == IF f \in OptionalFields(c) THEN r[f] ELSE Some(r[f])

\* Every successful outcome of every update of an existing record.
UpdateCases ==
  {<<c, id, u, out>> \in
     UNION {UNION {UNION {{<<c, id, u, out>> : out \in update(c, id, u)}
                          : u \in UpdatePayloads(c)}
                   : id \in Keys(db, c)}
            : c \in Collections} :
     out.status = "200"}

\* C1: a successful update sets the record's updated_at to the time of the
\* update, whatever the patch: the stored updated_at is not earlier than the
\* clock at the update nor than its old value, and it is later than
\* created_at when the clock has moved on since the create.
C1_UpdateRefreshesUpdatedAt ==
  \A x \in UpdateCases :
    LET c == x[1]  id == x[2]  out == x[4]
        old == Rec(db, c, id)
        new == Rec(out.db, c, id)
    IN  /\ new.updated_at >= now
        /\ new.updated_at >= old.updated_at
        /\ now > old.created_at => new.updated_at > new.created_at

\* C2: a successful update with a patch U that carries a strict subset of
\* the entity's fields leaves the record with U's values in the fields of U
\* and the old values in every other domain field, and changes no other
\* record of the collection.
C2_PartialUpdateIsolation ==
  \A x \in UpdateCases :
    LET c == x[1]  id == x[2]  u == x[3]  out == x[4]
        old == Rec(db, c, id)
        new == Rec(out.db, c, id)
    IN  (DOMAIN u \subseteq DomainFields(c) /\ DOMAIN u # DomainFields(c)) =>
          /\ \A f \in DOMAIN u : Carried(c, new, f) = u[f]
          /\ \A f \in DomainFields(c) \ DOMAIN u : new[f] = old[f]
          /\ out.body = new
          /\ Keys(out.db, c) = Keys(db, c)
          /\ \A k \in Keys(db, c) \ {id} : Rec(out.db, c, k) = Rec(db, c, k)

\* An address whose city was changed by an update (addresses are created in
\* New York) beside another address of the collection that kept its city.
C2_Witness ==
  /\ Len(addresses) = 2
  /\ addresses[1].value.city = "Brooklyn"
  /\ addresses[1].value.country = "India"
  /\ addresses[2].value.city = "New York"

\* C3: in every step every stored record keeps its key, its id and its
\* created_at, and every record is stored under its own id.
C3_Step ==
  \A c \in Collections :
    /\ \A k \in Keys(db, c) :
         /\ k \in Keys(db', c)
         /\ Rec(db', c, k).created_at = Rec(db, c, k).created_at
    /\ \A k \in Keys(db', c) : Rec(db', c, k).id = k
C3_IdAndCreatedAtImmutable == [][C3_Step]_vars

\* A visa status that an update changed (it was created as F1) after the
\* clock had moved on from its creation.
C3_Witness ==
  \E i \in DOMAIN visa_statuses :
    /\ visa_statuses[i].value.visa_status = "OPT"
    /\ visa_statuses[i].value.created_at < now

\* A record matches one supplied filter value v of filter f.
Holds(c, r, f, v) ==
  CASE c = "persons" /\ f = "city" -> \E i \in DOMAIN r.addresses : r.addresses[i].city = v
    [] c = "persons" /\ f = "country" -> \E i \in DOMAIN r.addresses : r.addresses[i].country = v
    [] c = "persons" /\ f = "birth_date" -> r.birth_date # None /\ str(r.birth_date) = v
    [] c = "persons" /\ f = "phone" -> r.phone = Some(v)
    [] OTHER -> r[f] = v

\* The records of collection c that match every supplied filter of F, in the
\* order of the collection.
Matching(c, F) ==
  LET Match(r) == \A f \in Supplied(F) : Holds(c, r, f, Val(F[f]))
  IN  SelectSeq(DictValues(db[c]), Match)

\* C4: list(F) never fails, changes nothing and returns exactly the records
\* of the collection for which every supplied filter holds; with no filter it
\* returns the whole collection.
C4_FilterExact ==
  \A c \in Collections : \A F \in Filters(c) :
    /\ list(c, F) # {}
    /\ \A out \in list(c, F) :
         /\ out.status = "200"
         /\ out.db = db
         /\ out.body = Matching(c, F)
         /\ Supplied(F) = {} => out.body = DictValues(db[c])

\* C5: list_persons with a city and/or a country filter returns a person iff
\* some embedded address has that city and some embedded address has that
\* country (each its own test); a person without addresses is never returned.
C5_PersonAddressFilters ==
  \A F \in PersonFilters :
    (Supplied(F) # {} /\ Supplied(F) \subseteq {"city", "country"}) =>
      \A out \in list("persons", F) :
        LET Expected(p) ==
              /\ F.city # None => \E i \in DOMAIN p.addresses : p.addresses[i].city = Val(F.city)
              /\ F.country # None =>
                   \E j \in DOMAIN p.addresses : p.addresses[j].country = Val(F.country)
        IN  /\ out.body = SelectSeq(DictValues(persons), Expected)
            /\ \A i \in DOMAIN out.body : out.body[i].addresses # <<>>

\* Two persons, the first with two addresses of which none is in New York
\* and in the USA, the second without addresses: city = New York with
\* country = USA returns the first alone.
C5_Witness ==
  /\ Len(persons) = 2
  /\ Len(persons[1].value.addresses) = 2
  /\ \A i \in DOMAIN persons[1].value.addresses :
       ~(persons[1].value.addresses[i].city = "New York"
         /\ persons[1].value.addresses[i].country = "USA")
  /\ persons[2].value.addresses = <<>>
  /\ \E out \in list_persons(None, None, None, None, None, None, Some("New York"), Some("USA")) :
       out.body = <<persons[1].value>>

\* C6: get and update of an id that is no key of the collection return 404
\* and leave the state as it is; get of a key returns the stored record and
\* leaves the state as it is.
C6_NotFound ==
  \A c \in Collections : \A id \in Ids :
    /\ get(c, id) # {}
    /\ \A u \in UpdatePayloads(c) : update(c, id, u) # {}
    /\ id \notin Keys(db, c) =>
         /\ \A out \in get(c, id) : out.status = "404" /\ out.db = db
         /\ \A u \in UpdatePayloads(c) :
              \A out \in update(c, id, u) : out.status = "404" /\ out.db = db
    /\ id \in Keys(db, c) =>
         \A out \in get(c, id) :
           out.status = "200" /\ out.body = Rec(db, c, id) /\ out.db = db

\* A person and a visa status are stored, each under an id the other
\* collection does not hold.
C6_Witness ==
  /\ Len(persons) = 1
  /\ Len(visa_statuses) = 1
  /\ persons[1].key \notin DictKeys(visa_statuses)

\* C7: create_address with an id that is a key of addresses returns 400 and
\* changes nothing; with a new id it succeeds and the new record is stored
\* under that id.
C7_DuplicateAddress ==
  \A address \in AddressCreate :
    /\ create_address(address) # {}
    /\ \A out \in create_address(address) :
         IF address.id \in DictKeys(addresses)
         THEN out.status = "400" /\ out.db = db
         ELSE /\ out.status = "201"
              /\ out.body.id = address.id
              /\ out.db.addresses = Append(addresses, [key |-> address.id, value |-> out.body])

\* An address is stored and has been updated since, so that a create with
\* its id would meet a record that differs from every create payload.
C7_Witness ==
  /\ Len(addresses) = 1
  /\ addresses[1].value.city = "Brooklyn"

\* C8: no collection holds two records under one key, and a successful
\* create returns an id that was no key of the collection and appends its
\* record, leaving the records that were there.
C8_IdentityUnique ==
  \A c \in Collections :
    /\ Cardinality(Keys(db, c)) = Len(db[c])
    /\ \A payload \in CreatePayloads(c) : \A out \in create(c, payload) :
         out.status = "201" =>
           /\ out.body.id \notin Keys(db, c)
           /\ out.db[c] = Append(db[c], [key |-> out.body.id, value |-> out.body])

\* Two persons were created one after the other.
C8_Witness ==
  /\ Len(persons) = 2
  /\ persons[1].value.id # persons[2].value.id

\* C9: the record a successful create returns and stores has created_at
\* equal to updated_at.
C9_CreatedAtEqualsUpdatedAt ==
  \A c \in Collections : \A payload \in CreatePayloads(c) : \A out \in create(c, payload) :
    out.status = "201" =>
      /\ out.body.created_at = out.body.updated_at
      /\ Rec(out.db, c, out.body.id) = out.body

RequiredFields(c) == DomainFields(c) \ OptionalFields(c)

\* C10: an update of a stored record whose patch carries None for a required
\* field is reported as a validation error and writes nothing.
C10_InvalidUpdateRejected ==
  \A c \in Collections : \A id \in Keys(db, c) : \A u \in UpdatePayloads(c) :
    (\E f \in DOMAIN u \cap RequiredFields(c) : u[f] = None) =>
      /\ update(c, id, u) # {}
      /\ \A out \in update(c, id, u) : out.status = "ValidationError" /\ out.db = db

\* A person and a fee record are stored: all their required fields can be
\* sent as null.
C10_Witness ==
  /\ Len(persons) = 1
  /\ Len(fee_details) = 1

\* An address collection without the timestamps: the identifier and the
\* domain fields of every record, under its key.
Plain(coll) ==
  [i \in DOMAIN coll |->
     [key |-> coll[i].key,
      value |-> [f \in AddressFields \cup {"id"} |-> coll[i].value[f]]]]

\* Request r run alone, from its first statement to its last, on the plain
\* collection coll: the collection it leaves and its response.
Alone(coll, r) ==
  IF r.kind = "create_address"
  THEN IF r.id \in DictKeys(coll)
       THEN [coll |-> coll, status |-> "400"]
       ELSE [coll |-> Append(coll, [key |-> r.id,
                                    value |-> [f \in AddressFields \cup {"id"} |-> r.body[f]]]),
             status |-> "201"]
  ELSE IF r.id \notin DictKeys(coll)
       THEN [coll |-> coll, status |-> "404"]
       ELSE LET merged == dict_update(model_dump(DictGet(coll, r.id), {}), r.body) IN
              IF ~validates(merged, AddressFields)
              THEN [coll |-> coll, status |-> "ValidationError"]
              ELSE [coll |-> DictSet(coll, r.id, [f \in AddressFields \cup {"id"} |-> Val(merged[f])]),
                    status |-> "200"]

\* The two requests have run, first the one of thread a and then the one of
\* thread b, and left the addresses and the responses of the current state.
SerialOrder(a, b) ==
  LET first == Alone(Plain(addresses0), threads[a].request)
      second == Alone(first.coll, threads[b].request)
  IN  /\ threads[a].status = first.status
      /\ threads[b].status = second.status
      /\ Plain(addresses) = second.coll

\* C11: when two requests on the address collection have run side by side,
\* the responses and the stored addresses are those of one of the two serial
\* orders: no update is lost, and two creates of one id do not both succeed.
C11_Atomic ==
  (threads["t1"].pc = "done" /\ threads["t2"].pc = "done") =>
    SerialOrder("t1", "t2") \/ SerialOrder("t2", "t1")

\* C11, the lost update alone: two successful updates of one address with
\* patches of different fields both show in the stored record.
C11_NoLostUpdate ==
  LET r1 == threads["t1"].request
      r2 == threads["t2"].request
  IN  (/\ threads["t1"].pc = "done" /\ threads["t2"].pc = "done"
       /\ threads["t1"].status = "200" /\ threads["t2"].status = "200"
       /\ r1.id = r2.id
       /\ DOMAIN r1.body \cap DOMAIN r2.body = {}) =>
        LET new == DictGet(addresses, r1.id) IN
          /\ \A f \in DOMAIN r1.body : Some(new[f]) = r1.body[f]
          /\ \A f \in DOMAIN r2.body : Some(new[f]) = r2.body[f]

\* The keys of collection c in state s, in the order of the dictionary.
KeySeq(s, c) == [i \in DOMAIN s[c] |-> s[c][i].key]

\* In the current state every list answers in the order of the dictionary:
\* the records it returns are in the order they have there, the unfiltered
\* list is the whole dictionary, and the dictionary is in creation order (no
\* record was created before the record in front of it).
C12_Listed ==
  \A c \in Collections :
    /\ \A i, j \in DOMAIN db[c] : i < j => db[c][i].value.created_at <= db[c][j].value.created_at
    /\ \A F \in Filters(c) : \A out \in list(c, F) :
         LET Returned(k) == \E i \in DOMAIN out.body : out.body[i].id = k
         IN  /\ [i \in DOMAIN out.body |-> out.body[i].id] = SelectSeq(KeySeq(db, c), Returned)
             /\ Supplied(F) = {} => out.body = DictValues(db[c])

\* In every step the keys a dictionary had keep their order and a new key
\* comes after them.
C12_Step ==
  \A c \in Collections :
    /\ Len(db'[c]) >= Len(db[c])
    /\ SubSeq(KeySeq(db', c), 1, Len(db[c])) = KeySeq(db, c)

\* C12: list returns the records in the order of their creation; no update
\* changes the relative order of the records, and a new record comes after
\* all records created before it.
C12_ListOrder == []C12_Listed /\ [][C12_Step]_vars

\* Two visa statuses, the second created later than the first, and the first
\* updated since (it was created as F1).
C12_Witness ==
  /\ Len(visa_statuses) = 2
  /\ visa_statuses[1].value.visa_status = "OPT"
  /\ visa_statuses[1].value.created_at < visa_statuses[2].value.created_at

\* Outcome out of an operation of collection c leaves the other collections
\* as they are, and an operation of the addresses leaves the address copies
\* embedded in the persons.
Frame(c, out) ==
  /\ \A c2 \in Collections \ {c} : out.db[c2] = db[c2]
  /\ c = "addresses" =>
       \A i \in DOMAIN persons : out.db.persons[i].value.addresses = persons[i].value.addresses

\* C13: every operation of one collection leaves the three other collections
\* as they are: the operations on persons (also with embedded addresses whose
\* id is the id of a stored address) leave the addresses, the operations on
\* addresses leave the persons and the address copies embedded in them.
C13_Independent ==
  \A c \in Collections :
    /\ \A payload \in CreatePayloads(c) : \A out \in create(c, payload) : Frame(c, out)
    /\ \A F \in Filters(c) : \A out \in list(c, F) : Frame(c, out)
    /\ \A id \in Ids :
         /\ \A out \in get(c, id) : Frame(c, out)
         /\ \A u \in UpdatePayloads(c) : \A out \in update(c, id, u) : Frame(c, out)

\* A person embeds an address under the id of a stored address, and the
\* stored address was moved to Brooklyn by an update while the embedded copy
\* is in New York.
C13_Witness ==
  /\ Len(persons) = 1
  /\ Len(addresses) = 1
  /\ persons[1].value.addresses # <<>>
  /\ persons[1].value.addresses[1].id = addresses[1].key
  /\ persons[1].value.addresses[1].city = "New York"
  /\ addresses[1].value.city = "Brooklyn"
====
